---- MODULE Spec2Model ----
(***************************************************************************)
(* Model of Comfyui_Presets_Util: src/main.py (DataManager, MainApp) and   *)
(* src/comfyui.py (ComfyUISettings, api_system_stats, send_workflow).      *)
(*                                                                         *)
(* Text is modelled as a sequence of one-character strings, so that        *)
(* str.strip, str.join, str.replace, json.dumps and json.loads are         *)
(* computed character by character.  A Python dict is modelled as the      *)
(* sequence of its items [k, v] in insertion order.                        *)
(***************************************************************************)
EXTENDS Integers, Sequences, FiniteSets, TLC

VARIABLES
    prompt_presets,     \* MainApp.prompt_presets: category -> list of {name, value}
    disk_presets,       \* ./prompts/prompt_presets.json
    prompt_vars,        \* MainApp.prompt_vars: single-select category -> selected name
    extra_listbox,      \* items of MainApp.extra_listbox
    extra_sel,          \* selected indices of MainApp.extra_listbox
    generated_prompts,  \* MainApp.generated_prompts: dict key -> prompt text
    disk_generated,     \* ./prompts/generated_prompts.json
    generated_listbox,  \* items of MainApp.generated_listbox
    generated_sel,      \* selected indices of MainApp.generated_listbox
    comfyui_settings,   \* MainApp.comfyui_settings
    settings_dir,       \* the bundle files of comfyui_presets/, in os.listdir order
    comfyui_preset_var, \* MainApp.comfyui_preset_var
    comfyui_url_var,    \* MainApp.comfyui_url_var
    comfyui_status_var, \* MainApp.comfyui_status_var
    last                \* what the last handler did: messages shown, requests issued

vars == <<prompt_presets, disk_presets, prompt_vars, extra_listbox, extra_sel,
          generated_prompts, disk_generated, generated_listbox, generated_sel,
          comfyui_settings, settings_dir, comfyui_preset_var,
          comfyui_url_var, comfyui_status_var, last>>

promptVars == <<prompt_presets, disk_presets, prompt_vars, extra_listbox, extra_sel>>
generatedVars == <<generated_prompts, disk_generated, generated_listbox, generated_sel>>
settingsVars == <<comfyui_settings, settings_dir, comfyui_preset_var>>
comfyVars == <<settingsVars, comfyui_url_var, comfyui_status_var>>

-----------------------------------------------------------------------------
(* Bounds of the model. *)

\* largest number of entries of generated_prompts a generate may reach
MaxGenerated == 2

-----------------------------------------------------------------------------
(* Python built-ins on text and lists. *)

RECURSIVE Concat(_)
\* "".join(parts), computed by halves
Concat(parts) ==
    IF parts = <<>> THEN <<>>
    ELSE IF Len(parts) = 1 THEN parts[1]
    ELSE LET h == Len(parts) \div 2
         IN  Concat(SubSeq(parts, 1, h)) \o Concat(SubSeq(parts, h + 1, Len(parts)))

RECURSIVE Join(_, _)
\* sep.join(parts)
Join(parts, sep) ==
    IF parts = <<>> THEN <<>>
    ELSE IF Len(parts) = 1 THEN parts[1]
    ELSE parts[1] \o sep \o Join(Tail(parts), sep)

\* list(filter(None, parts)): the non-empty strings of parts, in order
FilterNone(parts) == SelectSeq(parts, LAMBDA p : p # <<>>)

RECURSIVE LStrip(_, _)
\* s.lstrip(c)
LStrip(s, c) ==
    IF s # <<>> /\ Head(s) = c THEN LStrip(Tail(s), c) ELSE s

RECURSIVE RStrip(_, _)
\* s.rstrip(c)
RStrip(s, c) ==
    IF s # <<>> /\ s[Len(s)] = c THEN RStrip(SubSeq(s, 1, Len(s) - 1), c) ELSE s

\* s.strip(c): c removed from both ends (generate_prompt_string calls value.strip(","))
StripBothEnds(s, c) == RStrip(LStrip(s, c), c)

\* a faulty variant of Strip: only the trailing c removed
StripTrailingOnly(s, c) == RStrip(s, c)

\* s.strip(c)
Strip(s, c) == StripBothEnds(s, c)

\* the characters s.strip() removes from the ends of the text of an entry
SpaceChars == {" ", "\t"}

RECURSIVE StripSpace(_)
\* s.strip()
StripSpace(s) ==
    IF s = <<>> THEN s
    ELSE IF Head(s) \in SpaceChars THEN StripSpace(Tail(s))
    ELSE IF s[Len(s)] \in SpaceChars THEN StripSpace(SubSeq(s, 1, Len(s) - 1))
    ELSE s

\* sub in s, for two str
IsSubstring(sub, s) ==
    \E i \in 0..(Len(s) - Len(sub)) : SubSeq(s, i + 1, i + Len(sub)) = sub

\* the number of occurrences of the character c in s
Count(s, c) == Cardinality({i \in 1..Len(s) : s[i] = c})

RECURSIVE SortedSeq(_)
\* the elements of a finite set of integers in ascending order (Listbox.curselection)
SortedSeq(S) ==
    IF S = {} THEN <<>>
    ELSE LET m == CHOOSE x \in S : \A y \in S : x <= y
         IN  <<m>> \o SortedSeq(S \ {m})

\* the image of a sequence
Range(s) == {s[i] : i \in 1..Len(s)}

-----------------------------------------------------------------------------
(* dict, as the sequence of its items in insertion order. *)

DictKeys(d) == [i \in 1..Len(d) |-> d[i].k]

DictHas(d, key) == \E i \in 1..Len(d) : d[i].k = key

\* d.get(key, default)
DictGet(d, key, default) ==
    IF DictHas(d, key)
    THEN d[CHOOSE i \in 1..Len(d) : d[i].k = key].v
    ELSE default

\* d[key] = value: an existing key keeps its place, a new key goes last
DictAssign(d, key, value) ==
    IF DictHas(d, key)
    THEN [i \in 1..Len(d) |-> IF d[i].k = key THEN [k |-> key, v |-> value] ELSE d[i]]
    ELSE Append(d, [k |-> key, v |-> value])

\* a faulty variant of DictSet: the item is appended even when the key is present
DictAppendAlways(d, key, value) == Append(d, [k |-> key, v |-> value])

\* d[key] = value
DictSet(d, key, value) == DictAssign(d, key, value)

\* for key in keys: d.pop(key, None)
DictPopAll(d, keys) == SelectSeq(d, LAMBDA it : it.k \notin keys)

-----------------------------------------------------------------------------
(* MainApp constants. *)

PROMPT_CATEGORIES == <<"quality", "style", "character", "pose">>
EXTRA_CATEGORY == "extra"
ALL_CATEGORIES == PROMPT_CATEGORIES \o <<EXTRA_CATEGORY>>
PROMPT_VALUE_ORDER == <<"quality", "style", "character", "pose", "extra">>
PROMPT_KEY_ORDER == <<"character", "pose", "style", "extra", "quality">>

-----------------------------------------------------------------------------
(* The json module: json.dump writes a text, json.load reads one.          *)

Quote == "\""
Backslash == "\\"
ControlChars == {"\n", "\t"}

\* the characters json.dumps writes for one character of a str
EscapeChar(c) ==
    IF c = Quote THEN <<Backslash, Quote>>
    ELSE IF c = Backslash THEN <<Backslash, Backslash>>
    ELSE IF c = "\n" THEN <<Backslash, "n">>
    ELSE IF c = "\t" THEN <<Backslash, "t">>
    ELSE <<c>>

\* json.dumps(s)[1:-1]
JsonEscape(s) == Concat([i \in 1..Len(s) |-> EscapeChar(s[i])])

SimpleEscapes == {Quote, Backslash, "/", "b", "f", "n", "r", "t"}

\* a JSON value: a string, an array or an object (its members in the order of
\* the text).  The documents of the model hold no number and no literal.
JStr(s) == [str |-> s]
JArr(items) == [arr |-> items]
JObj(members) == [obj |-> members]
Member(key, value) == [k |-> key, v |-> value]

IsJStr(x) == "str" \in DOMAIN x
IsJArr(x) == "arr" \in DOMAIN x
IsJObj(x) == "obj" \in DOMAIN x

\* json.dumps(s)
JsonString(s) == <<Quote>> \o JsonEscape(s) \o <<Quote>>

\* the line break json.dump(indent=2) writes before an item of the given depth
NewLine(level) == <<"\n">> \o [i \in 1..(2 * level) |-> " "]

RECURSIVE JsonDump(_, _)
\* json.dump(v, f, ensure_ascii=False, indent=2): the text written for v at a
\* depth; items are separated by "," and a key from its value by ": "
JsonDump(v, level) ==
    IF IsJStr(v) THEN JsonString(v.str)
    ELSE IF IsJArr(v)
    THEN IF v.arr = <<>> THEN <<"[", "]">>
         ELSE <<"[">>
              \o Join([i \in 1..Len(v.arr) |->
                          NewLine(level + 1) \o JsonDump(v.arr[i], level + 1)], <<",">>)
              \o NewLine(level) \o <<"]">>
    ELSE IF v.obj = <<>> THEN <<"{", "}">>
         ELSE <<"{">>
              \o Join([i \in 1..Len(v.obj) |->
                          NewLine(level + 1) \o JsonString(v.obj[i].k) \o <<":", " ">>
                          \o JsonDump(v.obj[i].v, level + 1)], <<",">>)
              \o NewLine(level) \o <<"}">>

Whitespace == {" ", "\n", "\t", "\r"}

\* the character an escape stands for
UnescapeChar(c) ==
    CASE c = "n" -> "\n"
      [] c = "t" -> "\t"
      [] c = "r" -> "\r"
      [] c = "f" -> "\f"
      [] c = "b" -> "BS"
      [] OTHER   -> c

\* the result of a decoding step: the value read and the position after it
Decoded(value, next) == [ok |-> TRUE, val |-> value, pos |-> next]
\* json.JSONDecodeError
DecodeError == [ok |-> FALSE]

RECURSIVE SkipWhitespace(_, _)
SkipWhitespace(t, i) ==
    IF i <= Len(t) /\ t[i] \in Whitespace THEN SkipWhitespace(t, i + 1) ELSE i

RECURSIVE ScanString(_, _, _)
\* the decoder inside a string, at position i, acc being the characters read
ScanString(t, i, acc) ==
    IF i > Len(t) THEN DecodeError
    ELSE IF t[i] = Quote THEN Decoded(JStr(acc), i + 1)
    ELSE IF t[i] = Backslash
    THEN IF i + 1 > Len(t) \/ t[i + 1] \notin SimpleEscapes THEN DecodeError
         ELSE LET a == Append(acc, UnescapeChar(t[i + 1]))
              IN  IF a = <<>> THEN DecodeError ELSE ScanString(t, i + 2, a)
    ELSE IF t[i] \in ControlChars THEN DecodeError
    ELSE LET a == Append(acc, t[i])
         IN  IF a = <<>> THEN DecodeError ELSE ScanString(t, i + 1, a)

RECURSIVE ParseValue(_, _)
RECURSIVE ParseElements(_, _, _)
RECURSIVE ParseMembers(_, _, _)

\* the decoder before a value
ParseValue(t, i0) ==
    LET i == SkipWhitespace(t, i0)
    IN  IF i > Len(t) THEN DecodeError
        ELSE IF t[i] = Quote THEN ScanString(t, i + 1, <<>>)
        ELSE IF t[i] = "["
        THEN LET j == SkipWhitespace(t, i + 1)
             IN  IF j <= Len(t) /\ t[j] = "]" THEN Decoded(JArr(<<>>), j + 1)
                 ELSE ParseElements(t, j, <<>>)
        ELSE IF t[i] = "{"
        THEN LET j == SkipWhitespace(t, i + 1)
             IN  IF j <= Len(t) /\ t[j] = "}" THEN Decoded(JObj(<<>>), j + 1)
                 ELSE ParseMembers(t, j, <<>>)
        ELSE DecodeError

\* the decoder before an element of an array, acc being the elements read
ParseElements(t, i, acc) ==
    LET r == ParseValue(t, i)
    IN  IF ~r.ok THEN r
        ELSE LET j == SkipWhitespace(t, r.pos)
                 a == Append(acc, r.val)
             IN  IF j > Len(t) \/ a = <<>> THEN DecodeError
                 ELSE IF t[j] = "," THEN ParseElements(t, j + 1, a)
                 ELSE IF t[j] = "]" THEN Decoded(JArr(a), j + 1)
                 ELSE DecodeError

\* the decoder before a member of an object, acc being the members read
ParseMembers(t, i0, acc) ==
    LET i == SkipWhitespace(t, i0)
    IN  IF i > Len(t) \/ t[i] # Quote THEN DecodeError
        ELSE LET key == ScanString(t, i + 1, <<>>)
             IN  IF ~key.ok THEN key
                 ELSE LET c == SkipWhitespace(t, key.pos)
                      IN  IF c > Len(t) \/ t[c] # ":" THEN DecodeError
                          ELSE LET r == ParseValue(t, c + 1)
                               IN  IF ~r.ok THEN r
                                   ELSE LET j == SkipWhitespace(t, r.pos)
                                            a == Append(acc, Member(key.val.str, r.val))
                                        IN  IF j > Len(t) \/ a = <<>> THEN DecodeError
                                            ELSE IF t[j] = "," THEN ParseMembers(t, j + 1, a)
                                            ELSE IF t[j] = "}" THEN Decoded(JObj(a), j + 1)
                                            ELSE DecodeError

\* json.load(f): the value of the text, or JSONDecodeError when the text is not
\* one value with nothing but whitespace after it
JsonLoad(t) ==
    LET r == ParseValue(t, 1)
    IN  IF ~r.ok THEN r
        ELSE IF SkipWhitespace(t, r.pos) = Len(t) + 1 THEN r ELSE DecodeError

\* d[key] as json.load builds the dict: the last member of that key
ObjGet(members, key) ==
    LET hits == SelectSeq(members, LAMBDA m : m.k = key)
    IN  hits[Len(hits)].v

ObjHas(members, key) == \E i \in 1..Len(members) : members[i].k = key

-----------------------------------------------------------------------------------------------------------------------------------------------------
(* The files the program reads at start.  A fragment is {name, value}; a   *)
(* legacy document holds plain strings, here [str |-> s].  The fragment    *)
(* file is held as its text; the generated prompts as the document.        *)

Frag(n, v) == [name |-> n, value |-> v]
LegacyStr(s) == [str |-> s]

\* no file at the path
NoFile == [exists |-> FALSE]
\* a file holding the JSON document data
FileOf(data) == [exists |-> TRUE, data |-> data]
\* a file holding a text
FileText(text) == [exists |-> TRUE, text |-> text]

\* the keys of the fragment document, as texts
KeyText ==
    [quality   |-> <<"q", "u", "a", "l", "i", "t", "y">>,
     style     |-> <<"s", "t", "y", "l", "e">>,
     character |-> <<"c", "h", "a", "r", "a", "c", "t", "e", "r">>,
     pose      |-> <<"p", "o", "s", "e">>,
     extra     |-> <<"e", "x", "t", "r", "a">>,
     notes     |-> <<"n", "o", "t", "e", "s">>,
     name      |-> <<"n", "a", "m", "e">>,
     value     |-> <<"v", "a", "l", "u", "e">>]

\* names and values carrying the joining characters "-", "_" and ","
DocSeparators ==
    [quality   |-> << Frag(<<"q">>, <<",", "m", ",">>) >>,
     style     |-> << >>,
     character |-> << Frag(<<"c">>, <<"x">>), Frag(<<"d", "-">>, <<"w">>) >>,
     pose      |-> << >>,
     extra     |-> << Frag(<<"e">>, <<"y", ",">>), Frag(<<"f", "_">>, <<",">>) >>]

\* fragments whose value is the empty string
DocEmptyValue ==
    [style     |-> << Frag(<<"s">>, <<>>) >>,
     character |-> << Frag(<<"c">>, <<"x">>) >>,
     pose      |-> << Frag(<<"p">>, <<"z">>) >>,
     extra     |-> << Frag(<<"e">>, <<>>), Frag(<<"g">>, <<"y">>) >>]

\* a legacy document: only extras, as plain strings
DocLegacy ==
    [extra |-> << LegacyStr(<<"e">>), LegacyStr(<<"y">>) >>]

\* the JSON value of an item of a category: a plain string or {name, value}
ElementJson(e) ==
    IF IsJStr(e) THEN JStr(e.str)
    ELSE JObj(<< Member(KeyText.name, JStr(e.name)),
                 Member(KeyText.value, JStr(e.value)) >>)

\* the JSON value of a document: its categories, each a list of items
DocumentJson(doc, keys) ==
    JObj([i \in 1..Len(keys) |->
            Member(KeyText[keys[i]],
                   JArr([n \in 1..Len(doc[keys[i]]) |-> ElementJson(doc[keys[i]][n])]))])

\* the text of a document as json.dump(indent=2) writes it
DocumentText(doc, keys) == JsonDump(DocumentJson(doc, keys), 0)

FileSeparators == FileText(DocumentText(DocSeparators, ALL_CATEGORIES))
FileEmptyValue ==
    FileText(DocumentText(DocEmptyValue, <<"style", "character", "pose", "extra">>))
FileLegacy == FileText(DocumentText(DocLegacy, <<"extra">>))

\* a file of no bytes, and a file whose text ends in the middle of a document
FileEmptyText == FileText(<<>>)
FileTruncated == FileText(SubSeq(FileSeparators.text, 1, Len(FileSeparators.text) \div 2))

\* a document written by hand, on one line: a category the program does not
\* know, legacy strings in quality, and a fragment with value before name
FileNotes ==
    FileText(<<"{">> \o JsonString(KeyText.notes) \o <<":", "[">> \o JsonString(<<"n">>)
             \o <<"]", ",">> \o JsonString(KeyText.quality) \o <<":", "[">>
             \o JsonString(<<"k">>) \o <<",">> \o JsonString(<<"m", ",">>) \o <<"]", ",">>
             \o JsonString(KeyText.pose) \o <<":", "[", "{">>
             \o JsonString(KeyText.value) \o <<":">> \o JsonString(<<"z">>) \o <<",">>
             \o JsonString(KeyText.name) \o <<":">> \o JsonString(<<"p">>)
             \o <<"}", "]", "}">>)

\* the contents prompt_presets.json may have at start
PresetFiles ==
    {NoFile, FileSeparators, FileEmptyValue, FileLegacy,
     FileEmptyText, FileTruncated, FileNotes}

GenItem(key, text) == [k |-> key, v |-> text]

\* the contents generated_prompts.json may have at start: absent, or written by
\* an earlier run of the program (one entry with an empty text, one text with
\* a double quote in it)
GeneratedFiles ==
    {NoFile,
     FileOf(<< GenItem(<<"c", "-", "q">>, <<"m", ",", " ", "x">>) >>),
     FileOf(<< GenItem(<<"c", "-", "q">>, <<"m", ",", " ", "x">>),
               GenItem(<<"s">>, <<>>) >>),
     FileOf(<< GenItem(<<"c", "-", "q">>, <<"m", ",", " ", "x">>),
               GenItem(<<"e">>, <<"y", "\"">>) >>)}

-----------------------------------------------------------------------------
(* DataManager. *)

\* isinstance(x, str)
IsStr(x) == "str" \in DOMAIN x

load_generated_prompts(file) ==
    IF file.exists THEN file.data ELSE <<>>

save_generated_prompts(data) == FileOf(data)

\* a faulty variant of ElementOf: the name and the value change places
ElementOfSwapped(j) ==
    IF IsJObj(j) /\ Len(j.obj) = 2 /\ IsJStr(j.obj[1].v) /\ IsJStr(j.obj[2].v)
    THEN Frag(ObjGet(j.obj, KeyText.value).str, ObjGet(j.obj, KeyText.name).str)
    ELSE j

\* the Python value json.load builds for an item of a category
ElementOf(j) ==
    IF /\ IsJObj(j)
       /\ Len(j.obj) = 2
       /\ {j.obj[1].k, j.obj[2].k} = {KeyText.name, KeyText.value}
       /\ IsJStr(j.obj[1].v) /\ IsJStr(j.obj[2].v)
    THEN Frag(ObjGet(j.obj, KeyText.name).str, ObjGet(j.obj, KeyText.value).str)
    ELSE j

\* a faulty variant of CategoryLoaded: a plain string becomes a name without value
CategoryLoadedNameOnly(l) ==
    IF l # <<>> /\ IsStr(l[1])
    THEN [i \in 1..Len(l) |->
            IF IsStr(l[i]) THEN Frag(l[i].str, <<>>) ELSE Frag(l[i], l[i])]
    ELSE l

\* what the loop stores for a category found in the document: a list whose
\* first item is a str is rebuilt, every item v becoming {name: v, value: v}
CategoryLoaded(l) ==
    IF l # <<>> /\ IsStr(l[1])
    THEN [i \in 1..Len(l) |->
            IF IsStr(l[i]) THEN Frag(l[i].str, l[i].str) ELSE Frag(l[i], l[i])]
    ELSE l

\* the mapping returned, and whether messagebox.showerror was called.  The
\* documents of the model are objects whose categories are lists.
load_prompt_presets(file) ==
    LET data == [cat \in Range(ALL_CATEGORIES) |-> <<>>]
    IN  IF ~file.exists THEN [data |-> data, error |-> FALSE]
        ELSE LET loaded_data == JsonLoad(file.text)
             IN  IF ~loaded_data.ok THEN [data |-> data, error |-> TRUE]
                 ELSE [data |->
                         [cat \in Range(ALL_CATEGORIES) |->
                            IF ObjHas(loaded_data.val.obj, KeyText[cat])
                            THEN LET l == ObjGet(loaded_data.val.obj, KeyText[cat]).arr
                                 IN  CategoryLoaded([i \in 1..Len(l) |-> ElementOf(l[i])])
                            ELSE <<>>],
                       error |-> FALSE]

\* a faulty variant of save_prompt_presets: the extras are not written
save_prompt_presets_partial(data) ==
    FileText(DocumentText(data, PROMPT_CATEGORIES))

\* json.dump of the in-memory mapping: every category is written, in the
\* order of default_categories
save_prompt_presets(data) == FileText(DocumentText(data, ALL_CATEGORIES))

-----
(* MainApp: the widgets. *)

\* [p["name"] for p in self.prompt_presets[cat]]
NamesOf(presets, cat) == [i \in 1..Len(presets[cat]) |-> presets[cat][i].name]

\* [self.extra_listbox.get(i) for i in self.extra_listbox.curselection()]
SelectedExtras ==
    LET cur == SortedSeq(extra_sel)
    IN  [i \in 1..Len(cur) |-> extra_listbox[cur[i]]]

\* [self.generated_listbox.get(i) for i in self.generated_listbox.curselection()]
SelectedGenerated ==
    LET cur == SortedSeq(generated_sel)
    IN  [i \in 1..Len(cur) |-> generated_listbox[cur[i]]]

\* the listbox is emptied and filled with the keys: the selection is lost
refresh_generated_listbox(prompts) ==
    /\ generated_listbox' = DictKeys(prompts)

-----------------------------------------------------------------------------
(* MainApp.generate_prompt_string, the composition. *)

\* next((p["value"] for p in presets[cat] if p["name"] == name), None):
\* <<v>> for the first match, <<>> for None
LookupFirst(presets, cat, name) ==
    LET hits == SelectSeq(presets[cat], LAMBDA p : p.name = name)
    IN  IF hits = <<>> THEN <<>> ELSE <<hits[1].value>>

\* a faulty variant of LookupValue: a fragment without a value stands in with its name
LookupOrName(presets, cat, name) ==
    LET r == LookupFirst(presets, cat, name)
    IN  IF r = <<>> \/ r[1] = <<>> THEN <<name>> ELSE r

LookupValue(presets, cat, name) == LookupFirst(presets, cat, name)

\* if value: prompt_parts.append(value.strip(","))
ValuePart(presets, cat, name) ==
    LET r == LookupValue(presets, cat, name)
    IN  IF r # <<>> /\ r[1] # <<>> THEN << Strip(r[1], ",") >> ELSE << >>

\* the parts one category appends to prompt_parts
CategoryValueParts(pv, extras, presets, cat) ==
    IF cat = EXTRA_CATEGORY
    THEN Concat([i \in 1..Len(extras) |-> ValuePart(presets, cat, extras[i])])
    ELSE IF pv[cat] # <<>> THEN ValuePart(presets, cat, pv[cat]) ELSE << >>

\* prompt_parts: for cat in self.PROMPT_VALUE_ORDER
PromptParts(pv, extras, presets) ==
    Concat([i \in 1..Len(PROMPT_VALUE_ORDER) |->
                CategoryValueParts(pv, extras, presets, PROMPT_VALUE_ORDER[i])])

\* full_prompt = ", ".join(filter(None, prompt_parts))
full_prompt(pv, extras, presets) ==
    Join(FilterNone(PromptParts(pv, extras, presets)), <<",", " ">>)

\* the part one category appends to key_parts
CategoryKeyParts(pv, extras, cat) ==
    IF cat = EXTRA_CATEGORY
    THEN IF extras # <<>> THEN << Join(extras, <<"_">>) >> ELSE << >>
    ELSE << pv[cat] >>

KeyParts(pv, extras) ==
    Concat([i \in 1..Len(PROMPT_KEY_ORDER) |->
                CategoryKeyParts(pv, extras, PROMPT_KEY_ORDER[i])])

\* a faulty variant of JoinKey: the empty parts are joined too
JoinKeyUnfiltered(parts) == Join(parts, <<"-">>)

\* "-".join(filter(None, key_parts))
JoinKey(parts) == Join(FilterNone(parts), <<"-">>)

final_key(pv, extras) == JoinKey(KeyParts(pv, extras))

-----------------------------------------------------------------------------
(* MainApp.__init__: the state after construction. *)

\* the status texts of comfyui_status_var; the two failures start with the cross mark
STATUS_NOT_CHECKED == "not checked yet"
STATUS_URL_EMPTY == "X url must not be empty"
STATUS_UNREACHABLE == "X cannot connect to ComfyUI"
STATUS_CONNECTED == "OK connected to ComfyUI"

DEFAULT_URL == <<"h", "/">>

InitPrompts ==
    /\ disk_presets \in PresetFiles
    /\ prompt_presets = load_prompt_presets(disk_presets).data
    /\ prompt_vars = [cat \in Range(PROMPT_CATEGORIES) |->
                        LET names == NamesOf(prompt_presets, cat)
                        IN  IF names # <<>> THEN names[1] ELSE <<>>]
    /\ extra_listbox = NamesOf(prompt_presets, EXTRA_CATEGORY)
    /\ extra_sel = {}

InitGenerated ==
    /\ disk_generated \in GeneratedFiles
    /\ generated_prompts = load_generated_prompts(disk_generated)
    /\ generated_listbox = DictKeys(generated_prompts)
    /\ generated_sel = {}

-----------------------------------------------------------------------------
(* The user's selections in the widgets. *)

\* a name is picked in the read-only combobox of a single-select category
SelectPrompt(cat, name) ==
    /\ name \in Range(NamesOf(prompt_presets, cat))
    /\ prompt_vars' = [prompt_vars EXCEPT ![cat] = name]
    /\ last' = [op |-> "select"]
    /\ UNCHANGED <<prompt_presets, disk_presets, extra_listbox, extra_sel>>
    /\ UNCHANGED <<generatedVars, comfyVars>>

\* a row of the multi-select extra listbox is toggled
ToggleExtra(i) ==
    /\ i \in 1..Len(extra_listbox)
    /\ extra_sel' = IF i \in extra_sel THEN extra_sel \ {i} ELSE extra_sel \cup {i}
    /\ last' = [op |-> "select"]
    /\ UNCHANGED <<prompt_presets, disk_presets, prompt_vars, extra_listbox>>
    /\ UNCHANGED <<generatedVars, comfyVars>>

\* a row of the generated listbox is toggled
ToggleGenerated(i) ==
    /\ i \in 1..Len(generated_listbox)
    /\ generated_sel' = IF i \in generated_sel THEN generated_sel \ {i}
                        ELSE generated_sel \cup {i}
    /\ last' = [op |-> "select"]
    /\ UNCHANGED <<generated_prompts, disk_generated, generated_listbox>>
    /\ UNCHANGED <<promptVars, comfyVars>>

-----------------------------------------------------------------------------
(* MainApp.generate_prompt_string and MainApp.delete_generated_prompt. *)

\* list(d.keys()).index(key)
IndexOfKey(d, key) ==
    CHOOSE i \in 1..Len(d) : d[i].k = key /\ \A j \in 1..(i - 1) : d[j].k # key

\* a faulty variant of KeyIsUsable: the empty key is stored as well
KeyAlwaysUsable(key) == TRUE

\* if not final_key: warn and return
KeyIsUsable(key) == key # <<>>

generate_prompt_string ==
    LET fp == full_prompt(prompt_vars, SelectedExtras, prompt_presets)
        fk == final_key(prompt_vars, SelectedExtras)
        d  == DictSet(generated_prompts, fk, fp)
    IN  IF ~KeyIsUsable(fk)
        THEN /\ last' = [op |-> "generate", msg |-> "cannot generate"]
             /\ UNCHANGED <<promptVars, generatedVars, comfyVars>>
        ELSE /\ Len(d) <= MaxGenerated
             /\ generated_prompts' = d
             /\ disk_generated' = save_generated_prompts(d)
             /\ refresh_generated_listbox(d)
             /\ generated_sel' = {IndexOfKey(d, fk)}
             /\ last' = [op |-> "generate", msg |-> "generated", key |-> fk,
                         text |-> fp,
                         again |-> last.op = "generate" /\ last.msg = "generated"]
             /\ UNCHANGED <<promptVars, comfyVars>>

delete_generated_prompt(confirm) ==
    LET keys == SelectedGenerated
        d    == DictPopAll(generated_prompts, Range(keys))
    IN  IF keys = <<>>
        THEN /\ last' = [op |-> "delete_generated", msg |-> "nothing selected"]
             /\ UNCHANGED <<promptVars, generatedVars, comfyVars>>
        ELSE IF ~confirm
        THEN /\ last' = [op |-> "delete_generated", msg |-> "cancelled"]
             /\ UNCHANGED <<promptVars, generatedVars, comfyVars>>
        ELSE /\ generated_prompts' = d
             /\ disk_generated' = save_generated_prompts(d)
             /\ refresh_generated_listbox(d)
             /\ generated_sel' = {}
             /\ last' = [op |-> "delete_generated", msg |-> "deleted"]
             /\ UNCHANGED <<promptVars, comfyVars>>

-----------------------------------------------------------------------------
(* MainApp.add_prompt, edit_prompt and delete_prompt.  The texts of the    *)
(* two entries of the category are what the user typed before the click.   *)

\* largest number of fragments of a category an add may reach
MaxFragments == 2

\* refresh_prompt_ui(category, new_selection) once self.prompt_presets is presets
refresh_prompt_ui(presets, category, new_selection) ==
    IF category = EXTRA_CATEGORY
    THEN /\ extra_listbox' = NamesOf(presets, category)
         /\ extra_sel' = {}
         /\ UNCHANGED prompt_vars
    ELSE LET names == NamesOf(presets, category)
         IN  /\ prompt_vars' =
                  [prompt_vars EXCEPT ![category] =
                      IF new_selection # <<>> /\ new_selection \in Range(names)
                      THEN new_selection
                      ELSE IF names # <<>> THEN names[1] ELSE <<>>]
             /\ UNCHANGED <<extra_listbox, extra_sel>>

\* any(p["name"] == name for p in self.prompt_presets[category])
NameTaken(presets, category, name) ==
    \E i \in 1..Len(presets[category]) : presets[category][i].name = name

\* a faulty variant of NameIsNew: every name is taken for new
NameAlwaysNew(presets, category, name) == TRUE

NameIsNew(presets, category, name) == ~NameTaken(presets, category, name)

add_prompt(category, name_entry, val_entry) ==
    LET name  == StripSpace(name_entry)
        value == StripSpace(val_entry)
        added == [prompt_presets EXCEPT
                     ![category] = Append(@, Frag(name, value))]
    IN  IF name = <<>> \/ value = <<>>
        THEN /\ last' = [op |-> "add", msg |-> "invalid input"]
             /\ UNCHANGED <<promptVars, generatedVars, comfyVars>>
        ELSE IF ~NameIsNew(prompt_presets, category, name)
        THEN /\ last' = [op |-> "add", msg |-> "duplicate name"]
             /\ UNCHANGED <<promptVars, generatedVars, comfyVars>>
        ELSE /\ Len(added[category]) <= MaxFragments
             /\ prompt_presets' = added
             /\ disk_presets' = save_prompt_presets(added)
             /\ refresh_prompt_ui(added, category, <<>>)
             /\ last' = [op |-> "add", msg |-> "added"]
             /\ UNCHANGED <<generatedVars, comfyVars>>

\* self._get_selected_preset_name(category): a list for extra, a str otherwise
SelectedNames(category) ==
    IF category = EXTRA_CATEGORY THEN SelectedExtras ELSE prompt_vars[category]

\* the index of the first fragment of that name, 0 when there is none
FirstNamed(presets, category, name) ==
    IF NameTaken(presets, category, name)
    THEN CHOOSE i \in 1..Len(presets[category]) :
            /\ presets[category][i].name = name
            /\ \A j \in 1..(i - 1) : presets[category][j].name # name
    ELSE 0

edit_prompt(category, name_entry, val_entry) ==
    LET selected_names == SelectedNames(category)
        selected_name  == IF category = EXTRA_CATEGORY THEN selected_names[1]
                          ELSE selected_names
        new_name  == StripSpace(name_entry)
        new_value == StripSpace(val_entry)
        i      == FirstNamed(prompt_presets, category, selected_name)
        edited == [prompt_presets EXCEPT ![category][i] = Frag(new_name, new_value)]
    IN  IF selected_names = <<>>
        THEN /\ last' = [op |-> "edit", msg |-> "nothing selected"]
             /\ UNCHANGED <<promptVars, generatedVars, comfyVars>>
        ELSE IF new_name = <<>> \/ new_value = <<>>
        THEN /\ last' = [op |-> "edit", msg |-> "invalid input"]
             /\ UNCHANGED <<promptVars, generatedVars, comfyVars>>
        ELSE IF new_name # selected_name /\ ~NameIsNew(prompt_presets, category, new_name)
        THEN /\ last' = [op |-> "edit", msg |-> "duplicate name"]
             /\ UNCHANGED <<promptVars, generatedVars, comfyVars>>
        ELSE IF i = 0
        THEN /\ last' = [op |-> "edit", msg |-> ""]
             /\ UNCHANGED <<promptVars, generatedVars, comfyVars>>
        ELSE /\ prompt_presets' = edited
             /\ disk_presets' = save_prompt_presets(edited)
             /\ refresh_prompt_ui(edited, category, new_name)
             /\ last' = [op |-> "edit", msg |-> "edited"]
             /\ UNCHANGED <<generatedVars, comfyVars>>

\* p["name"] not in selected_names: a member test for the list of extra, a
\* substring test for the str of the other categories
NotInSelected(name, category, selected_names) ==
    IF category = EXTRA_CATEGORY THEN name \notin Range(selected_names)
    ELSE ~IsSubstring(name, selected_names)

delete_prompt(category, confirm) ==
    LET selected_names == SelectedNames(category)
        kept == SelectSeq(prompt_presets[category],
                          LAMBDA p : NotInSelected(p.name, category, selected_names))
        deleted == [prompt_presets EXCEPT ![category] = kept]
    IN  IF selected_names = <<>>
        THEN /\ last' = [op |-> "delete", msg |-> "nothing selected"]
             /\ UNCHANGED <<promptVars, generatedVars, comfyVars>>
        ELSE IF ~confirm
        THEN /\ last' = [op |-> "delete", msg |-> "cancelled"]
             /\ UNCHANGED <<promptVars, generatedVars, comfyVars>>
        ELSE IF Len(kept) < Len(prompt_presets[category])
        THEN /\ prompt_presets' = deleted
             /\ disk_presets' = save_prompt_presets(deleted)
             /\ refresh_prompt_ui(deleted, category, <<>>)
             /\ last' = [op |-> "delete", msg |-> "deleted"]
             /\ UNCHANGED <<generatedVars, comfyVars>>
        ELSE /\ last' = [op |-> "delete", msg |-> ""]
             /\ UNCHANGED <<promptVars, generatedVars, comfyVars>>

-----------------------------------------------------------------------------
(* Python values of the settings attributes: a bundle file is loaded into  *)
(* the object's __dict__ as it is, so an attribute may hold a str, an int, *)
(* a float or None.                                                        *)

PyNone == [none |-> TRUE]
PyStr(s) == [s |-> s]
PyInt(n) == [i |-> n]
\* a float, by the text str() gives for it
PyFloat(repr) == [f |-> repr]

IsPyStr(x) == "s" \in DOMAIN x
IsPyInt(x) == "i" \in DOMAIN x
IsPyFloat(x) == "f" \in DOMAIN x

DigitChars == <<"0", "1", "2", "3", "4", "5", "6", "7", "8", "9">>

RECURSIVE NatToStr(_)
NatToStr(n) ==
    IF n < 10 THEN <<DigitChars[n + 1]>>
    ELSE NatToStr(n \div 10) \o <<DigitChars[(n % 10) + 1]>>

\* str(x)
PyToStr(x) ==
    IF IsPyStr(x) THEN x.s
    ELSE IF IsPyInt(x) THEN (IF x.i < 0 THEN <<"-">> \o NatToStr(-x.i) ELSE NatToStr(x.i))
    ELSE IF IsPyFloat(x) THEN x.f
    ELSE <<"N", "o", "n", "e">>

-----------------------------------------------------------------------------
(* json.loads of the text of a workflow. *)

DigitSet == Range(DigitChars)

IsDigits(s) == s # <<>> /\ \A i \in 1..Len(s) : s[i] \in DigitSet

DigitValue(c) == (CHOOSE i \in 1..10 : DigitChars[i] = c) - 1

RECURSIVE StrToNat(_)
\* int(s) for a text of digits
StrToNat(s) ==
    IF Len(s) = 1 THEN DigitValue(s[1])
    ELSE StrToNat(SubSeq(s, 1, Len(s) - 1)) * 10 + DigitValue(s[Len(s)])

\* the scanner after a value has ended, reading c
AfterValue(c) ==
    IF c = " " THEN "after"
    ELSE IF c = "," THEN "member"
    ELSE IF c = "}" THEN "end"
    ELSE "fail"

\* one step of the scanner of json.loads: the mode after reading c in mode m.
\* The scanner reads one object whose members are strings and numbers, which
\* is the shape of the workflow templates.
JsonStep(m, c) ==
    CASE m = "start"  -> IF c = " " THEN m ELSE IF c = "{" THEN "first" ELSE "fail"
      [] m = "first"  -> IF c = " " THEN m
                         ELSE IF c = "}" THEN "end"
                         ELSE IF c = Quote THEN "key" ELSE "fail"
      [] m = "member" -> IF c = " " THEN m ELSE IF c = Quote THEN "key" ELSE "fail"
      [] m = "key"    -> IF c = Quote THEN "colon"
                         ELSE IF c = Backslash THEN "keyesc"
                         ELSE IF c \in ControlChars THEN "fail" ELSE m
      [] m = "keyesc" -> IF c \in SimpleEscapes THEN "key" ELSE "fail"
      [] m = "colon"  -> IF c = " " THEN m ELSE IF c = ":" THEN "value" ELSE "fail"
      [] m = "value"  -> IF c = " " THEN m
                         ELSE IF c = Quote THEN "str"
                         ELSE IF c = "-" THEN "minus"
                         ELSE IF c = "0" THEN "zero"
                         ELSE IF c \in DigitSet THEN "int" ELSE "fail"
      [] m = "str"    -> IF c = Quote THEN "after"
                         ELSE IF c = Backslash THEN "stresc"
                         ELSE IF c \in ControlChars THEN "fail" ELSE m
      [] m = "stresc" -> IF c \in SimpleEscapes THEN "str" ELSE "fail"
      [] m = "minus"  -> IF c = "0" THEN "zero"
                         ELSE IF c \in DigitSet THEN "int" ELSE "fail"
      [] m = "zero"   -> IF c = "." THEN "dot" ELSE AfterValue(c)
      [] m = "int"    -> IF c \in DigitSet THEN m
                         ELSE IF c = "." THEN "dot" ELSE AfterValue(c)
      [] m = "dot"    -> IF c \in DigitSet THEN "frac" ELSE "fail"
      [] m = "frac"   -> IF c \in DigitSet THEN m ELSE AfterValue(c)
      [] m = "after"  -> AfterValue(c)
      [] m = "end"    -> IF c = " " THEN m ELSE "fail"
      [] OTHER        -> "fail"

RECURSIVE JsonRun(_, _, _, _)
\* the mode of the scanner after text[lo..hi], entered in mode m; computed by
\* halves, and "fail" once a character is refused
JsonRun(text, lo, hi, m) ==
    IF m = "fail" \/ lo > hi THEN m
    ELSE IF lo = hi THEN JsonStep(m, text[lo])
    ELSE LET mid == (lo + hi) \div 2
             l   == JsonRun(text, lo, mid, m)
         IN  IF l = "fail" THEN l ELSE JsonRun(text, mid + 1, hi, l)

\* json.loads(text) returns (TRUE) or raises JSONDecodeError (FALSE)
JsonLoadsOk(text) == JsonRun(text, 1, Len(text), "start") = "end"

-----------------------------------------------------------------------------
(* The workflow templates.  A placeholder is one element of the text.  The *)
(* two files are not part of the sources: they are written from the        *)
(* placeholders the documentation lists, text placeholders inside quotes   *)
(* and numeric placeholders bare.                                          *)

QuotedMember(key, token) == <<Quote, key, Quote, ":", Quote, token, Quote>>
BareMember(key, token) == <<Quote, key, Quote, ":", token>>

TemplateTail ==
    <<",">> \o QuotedMember("p", "%PROMPT%") \o
    <<",">> \o BareMember("w", "%WIDTH%") \o
    <<",">> \o BareMember("h", "%HEIGHT%") \o
    <<",">> \o BareMember("b", "%BATCH_SIZE%") \o
    <<",">> \o BareMember("s", "%SEED%") \o
    <<",">> \o BareMember("t", "%STEPS%") \o
    <<",">> \o BareMember("g", "%CFG%") \o <<"}">>

\* workflows/base.json
base_json == <<"{">> \o QuotedMember("c", "%CHECKPOINT%") \o TemplateTail

\* workflows/base-lora.json
base_lora_json ==
    <<"{">> \o QuotedMember("c", "%CHECKPOINT%") \o
    <<",">> \o QuotedMember("l", "%LORA%") \o TemplateTail

TEMPLATE_BASE == "workflows/base.json"
TEMPLATE_LORA == "workflows/base-lora.json"

ReadTemplate(path) == IF path = TEMPLATE_BASE THEN base_json ELSE base_lora_json

-----------------------------------------------------------------------------
(* comfyui.py: ComfyUISettings and send_workflow. *)

RANDOM == <<"R", "A", "N", "D", "O", "M">>

\* ComfyUISettings.__init__ without data
DefaultSettings ==
    [presets_name  |-> PyStr(<<"d">>),
     latent_width  |-> PyInt(1216),
     latent_height |-> PyInt(832),
     batch_size    |-> PyInt(1),
     seed          |-> PyStr(RANDOM),
     steps         |-> PyInt(20),
     cfg           |-> PyFloat(<<"3", ".", "0">>),
     checkpoint    |-> PyStr(<<"w">>),
     lora          |-> PyStr(<<>>),
     prompt        |-> PyStr(<<"p">>)]

\* the bundle files the settings may be loaded from at start: a LoRA, a null
\* LoRA, a checkpoint in a sub-folder (a Windows path), and the seeds that ask
\* for a random one
SettingsFiles ==
    { DefaultSettings,
      [DefaultSettings EXCEPT !.lora = PyStr(<<"l">>), !.seed = PyInt(42)],
      [DefaultSettings EXCEPT !.lora = PyNone, !.seed = PyInt(42)],
      [DefaultSettings EXCEPT !.checkpoint = PyStr(<<"m", Backslash, "s">>)],
      [DefaultSettings EXCEPT !.lora = PyStr(<<"l">>), !.seed = PyInt(-1)],
      [DefaultSettings EXCEPT !.seed = PyStr(<<"-", "1">>)] }

\* the largest value random.randint(0, 2**31 - 1) is asked for
SEED_MAX == 2147483647

\* random.randint(a, b): a value of a..b, both ends included; the model draws
\* the values at and next to the two ends
randint(a, b) == {a, a + 1, b - 1, b}

\* a faulty variant of IsRandomSeed: the string "-1" is taken literally
IsRandomSeedNoString(seed) == seed = PyStr(RANDOM) \/ seed = PyInt(-1)

\* seed == "RANDOM" or seed == -1 or seed == "-1"
IsRandomSeed(seed) ==
    seed = PyStr(RANDOM) \/ seed = PyInt(-1) \/ seed = PyStr(<<"-", "1">>)

\* the values random.randint may return in one call of send_workflow (it is
\* called only for a random seed)
SeedDraws(seed) == IF IsRandomSeed(seed) THEN randint(0, SEED_MAX) ELSE {0}

\* the text put in place of %SEED%
SeedText(seed, draw) ==
    IF IsRandomSeed(seed) THEN PyToStr(PyInt(draw)) ELSE PyToStr(seed)

\* if lora == "" or lora == None: base.json, else base-lora.json
SelectTemplate(lora) ==
    IF lora = PyStr(<<>>) \/ lora = PyNone THEN TEMPLATE_BASE ELSE TEMPLATE_LORA

\* what the replace calls of send_workflow put in place of one element of the
\* template
Replacement(token, settings, prompt, draw) ==
    CASE token = "%CHECKPOINT%" -> settings.checkpoint.s
      [] token = "%LORA%"       -> settings.lora.s
      [] token = "%PROMPT%"     -> JsonEscape(prompt)
      [] token = "%WIDTH%"      -> PyToStr(settings.latent_width)
      [] token = "%HEIGHT%"     -> PyToStr(settings.latent_height)
      [] token = "%BATCH_SIZE%" -> PyToStr(settings.batch_size)
      [] token = "%SEED%"       -> SeedText(settings.seed, draw)
      [] token = "%STEPS%"      -> PyToStr(settings.steps)
      [] token = "%CFG%"        -> PyToStr(settings.cfg)
      [] OTHER                  -> <<token>>

\* the text after the nine replace calls (when every argument is a str).  The
\* calls run one after the other; no text put in holds a placeholder, so the
\* result is that of replacing every placeholder where it stands.
Substituted(settings, prompt, draw) ==
    LET t0 == ReadTemplate(SelectTemplate(settings.lora))
    IN  Concat([i \in 1..Len(t0) |-> Replacement(t0[i], settings, prompt, draw)])

\* what the server does with one POST
ServerOutcomes == {"200", "500", "network error"}

\* one call of send_workflow: the template read, whether the replace calls
\* completed, the seed substituted, whether the POST was issued and the status
\* that came back, what was printed, and how the call ended: it returns None
\* or raises
send_workflow(url, settings, prompt, draw, server) ==
    LET path == SelectTemplate(settings.lora)
        call == [template |-> path, substituted |-> FALSE, seed |-> <<>>,
                 posted |-> FALSE, status |-> "", printed |-> "",
                 returned |-> "None", raised |-> ""]
    IN  IF ~IsPyStr(settings.checkpoint) \/ ~IsPyStr(settings.lora)
        THEN [call EXCEPT !.returned = "", !.raised = "TypeError"]
        ELSE LET text == CHOOSE t \in {Substituted(settings, prompt, draw)} : TRUE
                 done == [call EXCEPT !.substituted = TRUE,
                                      !.seed = SeedText(settings.seed, draw)]
             IN  IF ~JsonLoadsOk(text)
                 THEN [done EXCEPT !.returned = "", !.raised = "JSONDecodeError"]
                 ELSE IF url = <<>>
                 THEN [done EXCEPT !.returned = "", !.raised = "MissingSchema"]
                 ELSE IF server = "network error"
                 THEN [done EXCEPT !.posted = TRUE, !.returned = "",
                                   !.raised = "ConnectionError"]
                 ELSE IF server = "200"
                 THEN [done EXCEPT !.posted = TRUE, !.status = server,
                                   !.printed = "Workflow sent successfully!"]
                 ELSE [done EXCEPT !.posted = TRUE, !.status = server,
                                   !.printed = "Error: 500"]

-----------------------------------------------------------------------------
(* MainApp: the settings tab.  The directory comfyui_presets is the list   *)
(* of its bundle files; the entries of the tab hold str() of the           *)
(* attributes of the current bundle, but for the name and the seed, which  *)
(* the user types before a save.                                           *)

\* largest number of bundle files a save may reach
MaxBundles == 2

\* the label comfyui_preset_var holds when there is no bundle
NO_PRESET == <<"-">>

\* comfyui_presets/{name}.json holding the attributes data
BundleFile(name, data) == [k |-> name, v |-> data]

\* ComfyUISettings.list_presets(): no directory or no file gives the empty list
list_presets(dir) == DictKeys(dir)

\* ComfyUISettings.load(name)
ComfyUISettings_load(dir, name) == DictGet(dir, name, DefaultSettings)

\* how the call ComfyUISettings(name="new_preset") of new_comfyui_preset ends:
\* __init__(self, data=None) takes no keyword name
NewSettings == "TypeError"

\* load_comfyui_presets() on the directory dir: the name put in
\* comfyui_preset_var, the bundle current after it (the trace on the variable
\* loads the first bundle; with no bundle new_comfyui_preset is called and
\* leaves the current one), and the exception it ends with
load_comfyui_presets(dir, current) ==
    IF list_presets(dir) # <<>>
    THEN [preset |-> list_presets(dir)[1],
          settings |-> ComfyUISettings_load(dir, list_presets(dir)[1]),
          raised |-> ""]
    ELSE [preset |-> NO_PRESET, settings |-> current, raised |-> NewSettings]

\* int(value), ValueError giving 0; "seed" is among the keys converted so
IntOrZero(text) ==
    IF IsDigits(text) THEN PyInt(StrToNat(text))
    ELSE IF text # <<>> /\ text[1] = "-" /\ IsDigits(Tail(text))
    THEN PyInt(0 - StrToNat(Tail(text)))
    ELSE PyInt(0)

\* float(value), ValueError giving 7.5
FloatOrDefault(text) ==
    IF \E i \in 2..(Len(text) - 1) :
          /\ text[i] = "."
          /\ IsDigits(SubSeq(text, 1, i - 1))
          /\ IsDigits(SubSeq(text, i + 1, Len(text)))
    THEN PyFloat(text)
    ELSE IF IsDigits(text) THEN PyFloat(text \o <<".", "0">>)
    ELSE PyFloat(<<"7", ".", "5">>)

\* the attributes after the loop of save_comfyui_preset over the entries
SettingsOfEntries(current, name_entry, seed_entry) ==
    [current EXCEPT
        !.presets_name  = PyStr(name_entry),
        !.checkpoint    = PyStr(PyToStr(@)),
        !.lora          = PyStr(PyToStr(@)),
        !.latent_width  = IntOrZero(PyToStr(@)),
        !.latent_height = IntOrZero(PyToStr(@)),
        !.batch_size    = IntOrZero(PyToStr(@)),
        !.seed          = IntOrZero(seed_entry),
        !.steps         = IntOrZero(PyToStr(@)),
        !.cfg           = FloatOrDefault(PyToStr(@))]

\* ComfyUISettings.save(): the file of that name is written; a new file may
\* come anywhere in the listing, here first (pos = 1) or last
WriteBundle(dir, name, data, pos) ==
    IF DictHas(dir, name) THEN DictAssign(dir, name, data)
    ELSE IF pos = 1 THEN <<BundleFile(name, data)>> \o dir
    ELSE Append(dir, BundleFile(name, data))

\* the process is running: __init__ returned
Running == ~(last.op = "init" /\ last.raised # "")

\* a bundle is picked in the menu: the trace loads it
SelectPreset(name) ==
    /\ Running
    /\ name \in Range(list_presets(settings_dir))
    /\ comfyui_preset_var' = name
    /\ comfyui_settings' = ComfyUISettings_load(settings_dir, name)
    /\ last' = [op |-> "select preset", raised |-> ""]
    /\ UNCHANGED <<settings_dir, comfyui_url_var, comfyui_status_var,
                   promptVars, generatedVars>>

new_comfyui_preset ==
    /\ Running
    /\ last' = [op |-> "new", raised |-> NewSettings]
    /\ UNCHANGED <<settingsVars, comfyui_url_var, comfyui_status_var,
                   promptVars, generatedVars>>

save_comfyui_preset(name_entry, seed_entry, pos) ==
    LET typed  == SettingsOfEntries(comfyui_settings, name_entry, seed_entry)
        dir    == WriteBundle(settings_dir, name_entry, typed, pos)
        loaded == load_comfyui_presets(dir, typed)
    IN  /\ Running
        /\ IF name_entry = <<>>
           THEN /\ comfyui_settings' = typed
                /\ last' = [op |-> "save", msg |-> "name needed", raised |-> ""]
                /\ UNCHANGED <<settings_dir, comfyui_preset_var>>
           ELSE /\ Len(dir) <= MaxBundles
                /\ settings_dir' = dir
                /\ comfyui_settings' =
                      ComfyUISettings_load(dir, loaded.settings.presets_name.s)
                /\ comfyui_preset_var' = loaded.settings.presets_name.s
                /\ last' = [op |-> "save", msg |-> "saved", raised |-> "",
                            name |-> name_entry, seed_entry |-> seed_entry]
        /\ UNCHANGED <<comfyui_url_var, comfyui_status_var, promptVars, generatedVars>>

delete_comfyui_preset(confirm) ==
    LET name   == comfyui_preset_var
        dir    == DictPopAll(settings_dir, {name})
        loaded == load_comfyui_presets(dir, comfyui_settings)
    IN  /\ Running
        /\ IF name = <<>> \/ name = NO_PRESET
           THEN /\ last' = [op |-> "delete preset", msg |-> "nothing selected",
                            raised |-> ""]
                /\ UNCHANGED settingsVars
           ELSE IF ~confirm \/ ~DictHas(settings_dir, name)
           THEN /\ last' = [op |-> "delete preset", msg |-> "", raised |-> ""]
                /\ UNCHANGED settingsVars
           ELSE /\ settings_dir' = dir
                /\ comfyui_preset_var' = loaded.preset
                /\ comfyui_settings' = loaded.settings
                /\ last' = [op |-> "delete preset",
                            msg |-> IF loaded.raised = "" THEN "deleted" ELSE "",
                            raised |-> loaded.raised]
        /\ UNCHANGED <<comfyui_url_var, comfyui_status_var, promptVars, generatedVars>>

-----------------------------------------------------------------------------
(* MainApp: the connection tab and the send button. *)

\* __init__ and _initial_load on the bundle files dir
InitComfyOn(dir) ==
    /\ settings_dir = dir
    /\ comfyui_preset_var = load_comfyui_presets(dir, DefaultSettings).preset
    /\ comfyui_settings = load_comfyui_presets(dir, DefaultSettings).settings
    /\ comfyui_url_var = DEFAULT_URL
    /\ comfyui_status_var = STATUS_NOT_CHECKED

\* one bundle file in the directory
InitComfy ==
    \E data \in SettingsFiles : InitComfyOn(<<BundleFile(data.presets_name.s, data)>>)

\* the user edits the address entry
SetUrl(url) ==
    /\ url # comfyui_url_var
    /\ comfyui_url_var' = url
    /\ last' = [op |-> "edit url"]
    /\ UNCHANGED <<settingsVars, comfyui_status_var, promptVars, generatedVars>>

\* what the server answers to GET api/system_stats
ProbeOutcomes == {"200 json", "200 empty json", "200 not json", "500", "network error"}

\* api_system_stats(URL): TRUE when the value returned is truthy.  A body that
\* does not parse makes response.json() raise; the exception is a
\* RequestException, caught, in the requests versions that define
\* requests.JSONDecodeError.
\* a faulty variant of api_system_stats: every answer of status 200 counts
api_system_stats_any_body(probe) ==
    probe \in {"200 json", "200 empty json", "200 not json"}

api_system_stats(probe) == probe = "200 json"

check_comfyui_connection(probe) ==
    /\ comfyui_status_var' =
          IF StripSpace(comfyui_url_var) = <<>> THEN STATUS_URL_EMPTY
          ELSE IF api_system_stats(probe) THEN STATUS_CONNECTED
          ELSE STATUS_UNREACHABLE
    /\ last' = [op |-> "check", probed |-> StripSpace(comfyui_url_var) # <<>>,
                probe |-> probe]
    /\ UNCHANGED <<settingsVars, comfyui_url_var, promptVars, generatedVars>>

\* status.startswith of the cross mark
StartsWithCross(status) == status \in {STATUS_URL_EMPTY, STATUS_UNREACHABLE}

\* the texts of the selected generated prompts that are sent: if prompt_text
SendItems ==
    LET keys == SelectedGenerated
    IN  FilterNone([i \in 1..Len(keys) |-> DictGet(generated_prompts, keys[i], <<>>)])

RECURSIVE SendLoop(_, _, _, _)
\* the calls of send_workflow the loop makes from item j on: an exception ends it
SendLoop(items, j, draws, servers) ==
    IF j > Len(items) THEN <<>>
    ELSE LET r == CHOOSE c \in {send_workflow(comfyui_url_var, comfyui_settings,
                                              items[j], draws[j], servers[j])} : TRUE
         IN  IF r.raised # "" THEN <<r>>
             ELSE <<r>> \o SendLoop(items, j + 1, draws, servers)

send_selected_prompt(draws, servers) ==
    /\ IF StartsWithCross(comfyui_status_var)
       THEN last' = [op |-> "send", msg |-> "blocked", calls |-> <<>>]
       ELSE IF SelectedGenerated = <<>>
       THEN last' = [op |-> "send", msg |-> "nothing selected", calls |-> <<>>]
       ELSE \E calls \in {SendLoop(SendItems, 1, draws, servers)} :
               LET raised == calls # <<>> /\ calls[Len(calls)].raised # ""
               IN  last' = [op |-> "send",
                            msg |-> IF raised THEN "exception" ELSE "sent",
                            count |-> IF raised THEN Len(calls) - 1 ELSE Len(calls),
                            selected |-> SelectedGenerated,
                            calls |-> calls]
    /\ UNCHANGED <<promptVars, generatedVars, comfyVars>>

-----------------------------------------------------------------------------
(* The specifications. *)

Init ==
    /\ InitPrompts
    /\ InitGenerated
    /\ InitComfy
    /\ last = [op |-> "init", error |-> load_prompt_presets(disk_presets).error,
               raised |-> ""]

NextCompose ==
    \/ \E cat \in Range(PROMPT_CATEGORIES) :
          \E name \in Range(NamesOf(prompt_presets, cat)) : SelectPrompt(cat, name)
    \/ \E i \in 1..Len(extra_listbox) : ToggleExtra(i)
    \/ \E i \in 1..Len(generated_listbox) : ToggleGenerated(i)
    \/ generate_prompt_string
    \/ \E confirm \in BOOLEAN : delete_generated_prompt(confirm)

NextSend ==
    \/ \E i \in 1..Len(generated_listbox) : ToggleGenerated(i)
    \/ \E url \in {DEFAULT_URL, <<>>} : SetUrl(url)
    \/ \E probe \in ProbeOutcomes : check_comfyui_connection(probe)
    \/ \E draws \in [1..Len(SendItems) -> SeedDraws(comfyui_settings.seed)] :
          \E servers \in [1..Len(SendItems) -> ServerOutcomes] :
             send_selected_prompt(draws, servers)

Next == NextCompose \/ NextSend

\* composing: the settings are those of the default bundle
InitCompose == Init /\ comfyui_settings = DefaultSettings

SpecCompose == InitCompose /\ [][NextCompose]_vars

\* sending: the fragments are those of one document
InitSend == Init /\ disk_presets = FileLegacy

SpecSend == InitSend /\ [][NextSend]_vars

\* the program is closed and started again: MainApp.__init__ reads the files
Restart ==
    LET loaded == load_prompt_presets(disk_presets)
        generated == load_generated_prompts(disk_generated)
    IN  /\ prompt_presets' = loaded.data
        /\ prompt_vars' = [cat \in Range(PROMPT_CATEGORIES) |->
                             LET names == NamesOf(loaded.data, cat)
                             IN  IF names # <<>> THEN names[1] ELSE <<>>]
        /\ extra_listbox' = NamesOf(loaded.data, EXTRA_CATEGORY)
        /\ extra_sel' = {}
        /\ generated_prompts' = generated
        /\ generated_listbox' = DictKeys(generated)
        /\ generated_sel' = {}
        /\ comfyui_url_var' = DEFAULT_URL
        /\ comfyui_status_var' = STATUS_NOT_CHECKED
        /\ comfyui_preset_var' = load_comfyui_presets(settings_dir, DefaultSettings).preset
        /\ comfyui_settings' = load_comfyui_presets(settings_dir, DefaultSettings).settings
        /\ last' = [op |-> "init", error |-> loaded.error,
                    raised |-> load_comfyui_presets(settings_dir, DefaultSettings).raised]
        /\ UNCHANGED <<disk_presets, disk_generated, settings_dir>>

\* the categories whose buttons are pressed, the texts typed in the name entry
\* and in the value entry
StoreCategories == {"character", EXTRA_CATEGORY}
NameEntries == {<<" ">>, <<"a">>, <<"a", "b", " ">>}
ValueEntries == {<<>>, <<" ", "w">>}

NextStore ==
    \/ \E cat \in StoreCategories \cap Range(PROMPT_CATEGORIES) :
          \E name \in Range(NamesOf(prompt_presets, cat)) : SelectPrompt(cat, name)
    \/ \E i \in 1..Len(extra_listbox) : ToggleExtra(i)
    \/ \E cat \in StoreCategories, name \in NameEntries, value \in ValueEntries :
          add_prompt(cat, name, value)
    \/ \E cat \in StoreCategories, name \in NameEntries, value \in ValueEntries :
          edit_prompt(cat, name, value)
    \/ \E cat \in StoreCategories, confirm \in BOOLEAN : delete_prompt(cat, confirm)
    \/ Restart

\* the fragment store: no generated prompt, the settings of the default bundle
InitStore ==
    /\ Init
    /\ disk_presets # FileSeparators
    /\ disk_generated = NoFile
    /\ comfyui_settings = DefaultSettings

SpecStore == InitStore /\ [][NextStore]_vars

\* the handlers that write a file; the fragments are the extras
NextPersist ==
    \/ \E i \in 1..Len(extra_listbox) : ToggleExtra(i)
    \/ \E i \in 1..Len(generated_listbox) : ToggleGenerated(i)
    \/ \E value \in ValueEntries : add_prompt(EXTRA_CATEGORY, <<"a">>, value)
    \/ \E value \in ValueEntries : edit_prompt(EXTRA_CATEGORY, <<"a">>, value)
    \/ \E confirm \in BOOLEAN : delete_prompt(EXTRA_CATEGORY, confirm)
    \/ generate_prompt_string
    \/ \E confirm \in BOOLEAN : delete_generated_prompt(confirm)

\* no fragment file or a legacy one, no generated prompt
InitPersist ==
    /\ Init
    /\ disk_presets \in {NoFile, FileLegacy}
    /\ disk_generated = NoFile
    /\ comfyui_settings = DefaultSettings

SpecPersist == InitPersist /\ [][NextPersist]_vars

\* the directories comfyui_presets may be at start: absent or empty, one
\* bundle, two bundles
SettingsDirs ==
    { <<>>,
      << BundleFile(<<"d">>, DefaultSettings) >>,
      << BundleFile(<<"d">>, DefaultSettings),
         BundleFile(<<"n">>, [DefaultSettings EXCEPT !.presets_name = PyStr(<<"n">>),
                                                     !.seed = PyInt(42)]) >> }

\* the texts typed in the name entry and in the seed entry of the settings tab
BundleNameEntries == {<<>>, <<"d">>, <<"n">>}
SeedEntries == {RANDOM, <<"4", "2">>, <<"-", "1">>}

NextSettings ==
    \/ \E name \in Range(list_presets(settings_dir)) : SelectPreset(name)
    \/ new_comfyui_preset
    \/ \E name \in BundleNameEntries, seed \in SeedEntries, pos \in 1..2 :
          save_comfyui_preset(name, seed, pos)
    \/ \E confirm \in BOOLEAN : delete_comfyui_preset(confirm)

\* the settings tab: no fragment, no generated prompt
InitSettings ==
    /\ InitPrompts /\ disk_presets = NoFile
    /\ InitGenerated /\ disk_generated = NoFile
    /\ \E dir \in SettingsDirs : InitComfyOn(dir)
    /\ last = [op |-> "init", error |-> FALSE,
               raised |-> load_comfyui_presets(settings_dir, DefaultSettings).raised]

SpecSettings == InitSettings /\ [][NextSettings]_vars

\* every handler from every start; the two tabs share only the generated
\* prompts, and the properties are checked under SpecCompose and SpecSend
Spec == Init /\ [][Next]_vars

-----------------------------------------------------------------------------
(* Properties of generate_prompt_string (checked under SpecCompose).  The  *)
(* selection is read in the state a generate leaves: the handler does not  *)
(* change it, and every other handler resets last.                         *)

Generated == last.op = "generate" /\ last.msg = "generated"

SeparatorChars == {"-", "_"}

\* the single-select categories with a selection, in the order given
SelectedSingles(order) ==
    SelectSeq(order, LAMBDA cat : cat # EXTRA_CATEGORY /\ prompt_vars[cat] # <<>>)

\* the selected names, categories in key order
NamesInKeyOrder ==
    Concat([i \in 1..Len(PROMPT_KEY_ORDER) |->
        LET cat == PROMPT_KEY_ORDER[i]
        IN  IF cat = EXTRA_CATEGORY THEN SelectedExtras
            ELSE IF prompt_vars[cat] # <<>> THEN <<prompt_vars[cat]>> ELSE << >>])

\* the number of non-empty parts of the key
NumKeyParts ==
    Len(SelectedSingles(PROMPT_KEY_ORDER)) + (IF SelectedExtras # <<>> THEN 1 ELSE 0)

\* the number of "_" that join extras
NumExtraJoins == IF SelectedExtras = <<>> THEN 0 ELSE Len(SelectedExtras) - 1

WithoutSeparators(s) == SelectSeq(s, LAMBDA c : c \notin SeparatorChars)

NoStraySeparator(key) ==
    /\ key[1] \notin SeparatorChars
    /\ key[Len(key)] \notin SeparatorChars
    /\ \A i \in 1..(Len(key) - 1) :
          ~(key[i] \in SeparatorChars /\ key[i + 1] \in SeparatorChars)

SelectedValues ==
    Concat([i \in 1..Len(PROMPT_VALUE_ORDER) |->
        LET cat == PROMPT_VALUE_ORDER[i]
        IN  IF cat = EXTRA_CATEGORY
            THEN Concat([j \in 1..Len(SelectedExtras) |->
                            FilterNone(LookupFirst(prompt_presets, cat, SelectedExtras[j]))])
            ELSE IF prompt_vars[cat] # <<>>
                 THEN FilterNone(LookupFirst(prompt_presets, cat, prompt_vars[cat]))
                 ELSE << >>])

CommaSpace == <<",", " ">>

\* C2 as stated: the prompt text is the selected values in value order, each
\* trimmed only of its trailing "," characters, joined by ", ".
C2_TrailingTrimOnly ==
    Generated =>
        last.text = Join([i \in 1..Len(SelectedValues) |->
                             RStrip(SelectedValues[i], ",")], CommaSpace)

\* C2 as amended: the prompt text is the selected values in value order, each
\* trimmed of its leading and its trailing "," characters, the values that are
\* empty after the trimming left out, joined by ", ".
C2_TextIsTrimmedValues ==
    Generated =>
        /\ last.text = Join(FilterNone([i \in 1..Len(SelectedValues) |->
                               RStrip(LStrip(SelectedValues[i], ","), ",")]), CommaSpace)
        /\ last.text # <<>> => last.text[1] # "," /\ last.text[Len(last.text)] # ","

\* a generate over a value with a leading comma, a value of commas only and
\* two extras
C2_Witness ==
    /\ Generated
    /\ Len(SelectedExtras) = 2
    /\ \E i \in 1..Len(SelectedValues) :
          SelectedValues[i] # <<>> /\ SelectedValues[i][1] = ","
                                   /\ LStrip(SelectedValues[i], ",") # <<>>
    /\ \E i \in 1..Len(SelectedValues) :
          SelectedValues[i] # <<>> /\ LStrip(SelectedValues[i], ",") = <<>>
    /\ last.text = <<"m", ",", " ", "x", ",", " ", "y">>

NoSelection ==
    /\ \A cat \in Range(PROMPT_CATEGORIES) : prompt_vars[cat] = <<>>
    /\ extra_sel = {}

NoEmptyKey ==
    /\ \A i \in 1..Len(generated_prompts) : generated_prompts[i].k # <<>>
    /\ disk_generated.exists =>
          \A i \in 1..Len(disk_generated.data) : disk_generated.data[i].k # <<>>

\* C3: a generate with no selection in any category shows the warning and
\* leaves the generated-prompt mapping as it was, in memory and on disk; the
\* mapping never holds an entry with an empty key.
C3_NoSelectionRejected ==
    /\ [][(last'.op = "generate" /\ NoSelection) =>
             /\ last'.msg = "cannot generate"
             /\ generated_prompts' = generated_prompts
             /\ disk_generated' = disk_generated]_vars
    /\ []NoEmptyKey

\* a generate was refused while the mapping held an entry
C3_Witness ==
    /\ last.op = "generate"
    /\ last.msg = "cannot generate"
    /\ NoSelection
    /\ generated_prompts # <<>>

KeysUnique(d) == \A i, j \in 1..Len(d) : d[i].k = d[j].k => i = j

\* C4: a generate that follows a generate directly (same selections, same
\* fragments) composes the same key and text and leaves the mapping, in
\* memory and on disk, as the first left it; no key occurs twice.
C4_RegenerateIsIdempotent ==
    /\ [][(Generated /\ last'.op = "generate") =>
             /\ last'.msg = "generated"
             /\ last'.key = last.key
             /\ last'.text = last.text
             /\ generated_prompts' = generated_prompts
             /\ disk_generated' = disk_generated]_vars
    /\ [](KeysUnique(generated_prompts))

\* the second of two generates in a row
C4_Witness ==
    /\ Generated
    /\ last.again
    /\ Len(generated_prompts) >= 2

\* the selected name has no fragment, or its fragment has no value
Valueless(cat, name) ==
    LET r == LookupFirst(prompt_presets, cat, name)
    IN  r = <<>> \/ r[1] = <<>>

\* the selection without the valueless names
LiveVars ==
    [cat \in Range(PROMPT_CATEGORIES) |->
        IF prompt_vars[cat] # <<>> /\ Valueless(cat, prompt_vars[cat])
        THEN <<>> ELSE prompt_vars[cat]]
LiveExtras == SelectSeq(SelectedExtras, LAMBDA n : ~Valueless(EXTRA_CATEGORY, n))

SomeValueless ==
    \/ \E cat \in Range(PROMPT_CATEGORIES) :
          prompt_vars[cat] # <<>> /\ Valueless(cat, prompt_vars[cat])
    \/ LiveExtras # SelectedExtras

\* C5 as stated: a category whose selected name resolves to no value adds
\* nothing to the key nor to the prompt text, and no error is raised.
C5_ValuelessAddsNothing ==
    (last.op = "generate" /\ SomeValueless /\ final_key(LiveVars, LiveExtras) # <<>>) =>
        /\ Generated
        /\ last.key = final_key(LiveVars, LiveExtras)
        /\ last.text = full_prompt(LiveVars, LiveExtras, prompt_presets)

\* C5 as amended: a category whose selected name resolves to no value adds
\* nothing to the prompt text and no error is raised; its name is still part
\* of the key.
C5_ValuelessAddsNoText ==
    (last.op = "generate" /\ SomeValueless) =>
        /\ Generated
        /\ last.text = full_prompt(LiveVars, LiveExtras, prompt_presets)
        /\ WithoutSeparators(last.key) = WithoutSeparators(Concat(NamesInKeyOrder))
        /\ last.key # final_key(LiveVars, LiveExtras)

\* a generate with a valueless single selection and a valueless extra
C5_Witness ==
    /\ Generated
    /\ prompt_vars["style"] # <<>> /\ Valueless("style", prompt_vars["style"])
    /\ LiveExtras # SelectedExtras
    /\ last.text # <<>>

-----------------------------------------------------------------------------
(* Properties of send_workflow and send_selected_prompt (checked under     *)
(* SpecSend).                                                              *)

\* the send button ran the loop over the selected prompts
Sending == last.op = "send" /\ last.msg \in {"sent", "exception"}

\* the seed asks for a random one: "RANDOM", -1 or "-1"
AsksRandom(seed) == seed \in {PyStr(RANDOM), PyInt(-1), PyStr(<<"-", "1">>)}

\* C6 as stated: for the seed "RANDOM", -1 or "-1" the text put in place of
\* %SEED% is an integer s with 0 <= s < 2^31 - 1; for any other seed it is the
\* configured seed.
C6_SeedBelowUpperBound ==
    Sending =>
        \A i \in 1..Len(last.calls) :
            last.calls[i].substituted =>
                IF AsksRandom(comfyui_settings.seed)
                THEN /\ IsDigits(last.calls[i].seed)
                     /\ StrToNat(last.calls[i].seed) < SEED_MAX
                ELSE last.calls[i].seed = PyToStr(comfyui_settings.seed)

\* C6 as amended: for the seed "RANDOM", -1 or "-1" the text put in place of
\* %SEED% is an integer s with 0 <= s <= 2^31 - 1 (the upper bound included);
\* for any other seed it is the configured seed.
C6_SeedWithinBounds ==
    Sending =>
        \A i \in 1..Len(last.calls) :
            last.calls[i].substituted =>
                IF AsksRandom(comfyui_settings.seed)
                THEN /\ IsDigits(last.calls[i].seed)
                     /\ StrToNat(last.calls[i].seed) <= SEED_MAX
                ELSE last.calls[i].seed = PyToStr(comfyui_settings.seed)

\* a prompt was posted with the seed "-1" replaced by the largest draw
C6_Witness ==
    /\ Sending
    /\ comfyui_settings.seed = PyStr(<<"-", "1">>)
    /\ \E i \in 1..Len(last.calls) :
          /\ last.calls[i].posted
          /\ IsDigits(last.calls[i].seed)
          /\ StrToNat(last.calls[i].seed) = SEED_MAX

\* C7: send_workflow ends without raising whatever the server does, and what
\* it returns after a 200 differs from what it returns after another status,
\* so that the caller can tell them apart; a failed submit leaves the
\* generated-prompt mapping alone.
C7_OutcomeReturned ==
    /\ Sending =>
          /\ \A i \in 1..Len(last.calls) :
                last.calls[i].posted => last.calls[i].raised = ""
          /\ \A i, j \in 1..Len(last.calls) :
                (last.calls[i].status = "200" /\ last.calls[j].status = "500")
                    => last.calls[i].returned # last.calls[j].returned
    /\ (disk_generated.exists => disk_generated.data = generated_prompts)

\* C8: every selected prompt that has a text is submitted, whatever happened
\* to the ones before it, and the count shown at the end is the number of
\* submissions the server accepted.
C8_BatchIsIndependent ==
    Sending =>
        /\ Len(last.calls) = Len(SendItems)
        /\ last.msg = "sent"
        /\ last.count = Cardinality({i \in 1..Len(last.calls) :
                                        last.calls[i].status = "200"})

\* C9: when the substituted text does not parse, no POST is issued and the
\* handler ends by reporting the error (it is not left by the exception).
C9_TemplateErrorReported ==
    Sending =>
        \A i \in 1..Len(last.calls) :
            last.calls[i].raised = "JSONDecodeError" =>
                /\ ~last.calls[i].posted
                /\ last.msg # "exception"

\* the lora attribute is empty: "" or None
LoraEmpty(lora) == lora \in {PyStr(<<>>), PyNone}

\* C10: an empty lora reads workflows/base.json, a non-empty lora reads
\* workflows/base-lora.json, and the replace calls that follow complete.
C10_TemplateChosenAndFilled ==
    Sending =>
        \A i \in 1..Len(last.calls) :
            /\ last.calls[i].template =
                  (IF LoraEmpty(comfyui_settings.lora) THEN TEMPLATE_BASE
                   ELSE TEMPLATE_LORA)
            /\ last.calls[i].substituted

-----------------------------------------------------------------------------
(* Properties of DataManager.load_prompt_presets and save_prompt_presets   *)
(* (checked under SpecStore).  They are read in the states __init__        *)
(* leaves, where prompt_presets is what load_prompt_presets returned for   *)
(* the file on disk.                                                       *)

\* MainApp.__init__ has just run
Loaded == last.op = "init"

\* the document of the fragment file, decoded
Document == JsonLoad(disk_presets.text)

AllEmpty(presets) == \A cat \in Range(ALL_CATEGORIES) : presets[cat] = <<>>

\* the category is in the document
InDocument(cat) == ObjHas(Document.val.obj, KeyText[cat])

\* the items of the category in the document
DocumentItems(cat) == ObjGet(Document.val.obj, KeyText[cat]).arr

\* the category is in the document as a list of plain strings
PlainStrings(cat) ==
    /\ InDocument(cat)
    /\ DocumentItems(cat) # <<>>
    /\ \A i \in 1..Len(DocumentItems(cat)) : IsJStr(DocumentItems(cat)[i])

\* C11: load_prompt_presets returns a mapping of exactly the five categories;
\* a category absent from the document is the empty list, a category that is
\* a list of plain strings s becomes the list of {name: s, value: s}, and a
\* text that does not parse gives five empty lists and an error message.
C11_LoadNormalises ==
    Loaded =>
        /\ DOMAIN prompt_presets = Range(ALL_CATEGORIES)
        /\ ~disk_presets.exists => AllEmpty(prompt_presets) /\ ~last.error
        /\ (disk_presets.exists /\ ~Document.ok) =>
              AllEmpty(prompt_presets) /\ last.error
        /\ (disk_presets.exists /\ Document.ok) =>
              /\ ~last.error
              /\ \A cat \in Range(ALL_CATEGORIES) :
                    /\ ~InDocument(cat) => prompt_presets[cat] = <<>>
                    /\ PlainStrings(cat) =>
                          prompt_presets[cat] =
                              [i \in 1..Len(DocumentItems(cat)) |->
                                  Frag(DocumentItems(cat)[i].str,
                                       DocumentItems(cat)[i].str)]

\* a document with legacy strings, an unknown category and absent categories
\* has been loaded
C11_Witness ==
    /\ Loaded
    /\ disk_presets = FileNotes
    /\ prompt_presets.quality = << Frag(<<"k">>, <<"k">>), Frag(<<"m", ",">>, <<"m", ",">>) >>
    /\ prompt_presets.extra = <<>>

\* C12: saving what was loaded and loading again returns the mapping of the
\* first load; the fragments loaded from a list of plain strings have a name
\* equal to their value.
C12_SaveLoadRoundTrip ==
    Loaded =>
        /\ load_prompt_presets(save_prompt_presets(prompt_presets)).data = prompt_presets
        /\ (disk_presets.exists /\ Document.ok) =>
              \A cat \in Range(ALL_CATEGORIES) :
                  PlainStrings(cat) =>
                      \A i \in 1..Len(prompt_presets[cat]) :
                          prompt_presets[cat][i].name = prompt_presets[cat][i].value

\* the program starts on a file it wrote itself: the fragments of a legacy
\* document, saved with one more
C12_Witness ==
    /\ Loaded
    /\ disk_presets = save_prompt_presets(prompt_presets)
    /\ Len(prompt_presets.extra) = 2
    /\ prompt_presets.character # <<>>
    /\ \E i \in 1..2 : prompt_presets.extra[i] = Frag(<<"y">>, <<"y">>)

-----------------------------------------------------------------------------
(* Properties of check_comfyui_connection and of the gate at the head of   *)
(* send_selected_prompt (checked under SpecSend).                          *)

\* the answers of status 200 whose body parses
ParseableAnswers == {"200 json", "200 empty json"}

\* the status shown is that of a connection check that did not succeed
CheckFailed == comfyui_status_var \notin {STATUS_NOT_CHECKED, STATUS_CONNECTED}

\* the last handler was a send that issued no POST
NothingPosted == \A i \in 1..Len(last.calls) : ~last.calls[i].posted

\* C13: a connection check succeeds only on a 200 answer with a parseable
\* body; after a check that did not succeed (empty URL, exception, other
\* status) the failure stays shown until a later check, and a send issues no
\* POST while it is shown; a send before any check is not blocked.
C13_SendGatedByProbe ==
    /\ [](last.op = "check" =>
            /\ comfyui_status_var = STATUS_CONNECTED =>
                  last.probed /\ last.probe \in ParseableAnswers
            /\ comfyui_status_var # STATUS_CONNECTED => CheckFailed)
    /\ [][(CheckFailed /\ last'.op # "check") => UNCHANGED comfyui_status_var]_vars
    /\ [](last.op = "send" /\ CheckFailed => last.msg = "blocked" /\ NothingPosted)
    /\ [](last.op = "send" /\ comfyui_status_var = STATUS_NOT_CHECKED =>
            last.msg # "blocked")

\* a send of a selected prompt was refused after a check the server failed
C13_Witness ==
    /\ last.op = "send"
    /\ last.msg = "blocked"
    /\ comfyui_status_var = STATUS_UNREACHABLE
    /\ comfyui_url_var # <<>>
    /\ SendItems # <<>>

-----------------------------------------------------------------------------
(* Properties of add_prompt, edit_prompt and delete_prompt (checked under  *)
(* SpecStore).                                                             *)

\* the names of every category are pairwise distinct
UniqueNames(presets) ==
    \A cat \in Range(ALL_CATEGORIES) :
        \A i, j \in 1..Len(presets[cat]) :
            presets[cat][i].name = presets[cat][j].name => i = j

\* every fragment has a non-empty name and a non-empty value
NoEmptyField(presets) ==
    \A cat \in Range(ALL_CATEGORIES) :
        \A i \in 1..Len(presets[cat]) :
            presets[cat][i].name # <<>> /\ presets[cat][i].value # <<>>

\* the step is one of the three handlers
StoreHandler == last'.op \in {"add", "edit", "delete"}

\* the handler refused what was typed
Refused == last'.msg \in {"invalid input", "duplicate name"}

\* C14 as stated: from a collection whose names are unique in every category,
\* every add, edit and delete leaves the names unique and every fragment with
\* a non-empty name and a non-empty value; an add or edit that is refused
\* leaves the collection as it was.
C14_UniqueStartSuffices ==
    [][StoreHandler =>
          /\ UniqueNames(prompt_presets) =>
                UniqueNames(prompt_presets') /\ NoEmptyField(prompt_presets')
          /\ Refused => UNCHANGED <<prompt_presets, disk_presets>>]_vars

\* C14: from a collection whose names are unique in every category and whose
\* fragments all have a non-empty name and a non-empty value, every add, edit
\* and delete leaves such a collection; an add or edit that is refused leaves
\* the collection as it was.
C14_WellFormedIsKept ==
    [][StoreHandler =>
          /\ (UniqueNames(prompt_presets) /\ NoEmptyField(prompt_presets)) =>
                (UniqueNames(prompt_presets') /\ NoEmptyField(prompt_presets'))
          /\ Refused => UNCHANGED <<prompt_presets, disk_presets>>]_vars

\* an edit that gives a fragment the name of another one has been refused
C14_Witness ==
    /\ last.op = "edit"
    /\ last.msg = "duplicate name"
    /\ NamesOf(prompt_presets, "character") = << <<"a">>, <<"a", "b">> >>
    /\ UniqueNames(prompt_presets) /\ NoEmptyField(prompt_presets)

-----------------------------------------------------------------------------
(* Persistence (checked under SpecPersist). *)

\* prompt_presets.json holds the document of the in-memory mapping, whole, as
\* json.dump writes it
FragmentsOnDisk ==
    /\ disk_presets.exists
    /\ disk_presets.text = DocumentText(prompt_presets, ALL_CATEGORIES)

\* generated_prompts.json holds the in-memory dict
GeneratedOnDisk ==
    /\ disk_generated.exists
    /\ disk_generated.data = generated_prompts

\* the step is one of the five handlers that change a collection
Mutation == last'.op \in {"add", "edit", "delete", "generate", "delete_generated"}

\* the last handler changed the fragments, or the generated prompts
FragmentsChanged == last.op \in {"add", "edit", "delete"}
                    /\ last.msg \in {"added", "edited", "deleted"}
GeneratedChanged == last.op \in {"generate", "delete_generated"}
                    /\ last.msg \in {"generated", "deleted"}

\* C15: after each add_prompt, edit_prompt, delete_prompt, generate_prompt_string
\* and delete_generated_prompt the collection the handler changed is on disk as
\* a whole document, and a collection it did not change has its file left as
\* it was (so a file that held the collection before holds it after).
C15_MutationsArePersisted ==
    /\ [](FragmentsChanged => FragmentsOnDisk)
    /\ [](GeneratedChanged => GeneratedOnDisk)
    /\ [][Mutation =>
            /\ prompt_presets' # prompt_presets => FragmentsChanged'
            /\ generated_prompts' # generated_prompts => GeneratedChanged'
            /\ prompt_presets' = prompt_presets =>
                  (disk_presets' = disk_presets \/ FragmentsChanged')
            /\ generated_prompts' = generated_prompts =>
                  (disk_generated' = disk_generated \/ GeneratedChanged')]_vars

\* a fragment has been deleted while a generated prompt is kept: both files
\* hold what is in memory
C15_Witness ==
    /\ last.op = "delete"
    /\ last.msg = "deleted"
    /\ generated_prompts # <<>>
    /\ FragmentsOnDisk
    /\ GeneratedOnDisk


-----------------------------------------------------------------------------
(* The settings bundles. *)

\* the current bundle is a fresh one and the menu shows the label of no bundle
FreshSettings == comfyui_settings = DefaultSettings /\ comfyui_preset_var = NO_PRESET

\* C16: with no bundle file list_presets gives the empty list, and start-up
\* and the handlers new, save and delete all end without an exception, a
\* fresh bundle being current whenever no bundle file exists.  The code ends
\* with a TypeError as soon as new_comfyui_preset is called.
C16_NoBundleEndsWithFreshSettings ==
    /\ last.raised = ""
    /\ settings_dir = <<>> => list_presets(settings_dir) = <<>> /\ FreshSettings

\* the last bundle file was deleted: the handler ended with the exception and
\* the deleted bundle is still the current one
C16_LastBundleDeleted ==
    /\ last.op = "delete preset"
    /\ settings_dir = <<>>
    /\ last.raised = "TypeError"
    /\ comfyui_settings # DefaultSettings

\* the bundle file the last save wrote
StoredBundle == ComfyUISettings_load(settings_dir, last.name)

Saved == last.op = "save" /\ last.msg = "saved"

\* C17: the bundle save_comfyui_preset stores carries the seed that was
\* entered: the sentinel RANDOM stays the sentinel, so that a submission draws
\* a seed, and a non-negative integer is stored as that integer.  The code
\* stores 0 for the sentinel.
C17_SavedSeedIsKept ==
    Saved =>
        /\ last.seed_entry = RANDOM =>
              /\ StoredBundle.seed = PyStr(RANDOM)
              /\ IsRandomSeed(StoredBundle.seed)
        /\ IsDigits(last.seed_entry) =>
              StoredBundle.seed = PyInt(StrToNat(last.seed_entry))

\* a bundle was saved with the sentinel entered and is stored with seed 0
C17_SentinelStoredAsZero ==
    /\ Saved
    /\ last.seed_entry = RANDOM
    /\ StoredBundle.seed = PyInt(0)
    /\ ~IsRandomSeed(StoredBundle.seed)

\* the part of C17 the code keeps: a non-negative integer is stored as typed
C17_IntegerSeedStored ==
    (Saved /\ IsDigits(last.seed_entry)) =>
        StoredBundle.seed = PyInt(StrToNat(last.seed_entry))

====
